---------------------------- MODULE Spec2Model ----------------------------
(***************************************************************************)
(* ADC test program for the LaunchPad F28379D: the self-check round, the   *)
(* continuous monitoring loop of main(), the trigger/poll/clear/read       *)
(* protocol of AdcConversion(), the calibration of AdcResult() and the     *)
(* windowed statistics (InitStatistics, UpdateStatistics,                  *)
(* DisplayStatistics) and VerifyADCReadings() of lab_main.c.               *)
(*                                                                         *)
(* Numbers.  The C `float` values are held in binary fixed point: a        *)
(* voltage v is the integer v * 2^25 (one unit is 2^-25 V, about 30 nV),   *)
(* the millivolt figure of the peak-to-peak column is the integer          *)
(* mV * 2^15.  Products and quotients are rounded to the nearest unit,     *)
(* as the float operations round to the nearest float.  The two scale      *)
(* factors are the exact float values of the literals of adc_config.h:     *)
(* 0.0000503540039F is 13841203 * 2^-38 and 0.00080566406F is              *)
(* 13841203 * 2^-34.                                                       *)
(***************************************************************************)
EXTENDS Integers, Naturals, Sequences, FiniteSets, Bags, TLC

(* ------------------------------ bounds -------------------------------- *)

\* The monitoring loop is followed up to this value of testIteration.
MaxIter == 20

\* The statistics harness feeds at most this many updates into one window.
MaxWindow == 3

\* The statistics harness is run with testIteration in 0..MaxHarnessIter.
MaxHarnessIter == 3

\* The statistics harness takes at most this many snapshots in a run.
MaxSnapshots == 1

(* ------------------------- program constants -------------------------- *)

NUM_ADC_CHANNELS == 2

TEST_ITERATIONS == 10

Channels == 0 .. (NUM_ADC_CHANNELS - 1)

\* myADCA (channel 0) and myADCB (channel 1).
ADCs == Channels

\* One volt and one millivolt in the fixed-point units of the model.
VoltUnit == 2^25

MilliUnit == 2^15

\* x / d rounded to the nearest integer (d > 0).
RoundDiv(x, d) == (x + (d \div 2)) \div d

\* x * num / den rounded to the nearest integer, without forming x * num.
MulDiv(x, num, den) ==
    LET q == x \div den
        r == x % den
    IN  q * num + RoundDiv(r * num, den)

\* The scale factors as <<numerator, denominator>> in volt units per count:
\* 13841203 * 2^-38 V = 13841203 / 2^13 units, 13841203 * 2^-34 V =
\* 13841203 / 2^9 units.
DIFFERENTIAL == <<13841203, 2^13>>

SINGLE_ENDED == <<13841203, 2^9>>

\* count * scale, rounded: the scale is split so that no product leaves
\* the integer range of the model checker.
Scale(count, scale) ==
    LET hi == scale[1] \div scale[2]
        lo == scale[1] % scale[2]
    IN  count * hi + RoundDiv(count * lo, scale[2])

\* The raw values the result registers deliver in the program runs: for
\* each channel one sample the self-check finds implausible and one it
\* finds plausible, the 16-bit one on either side of mid-scale.
RawValues(a) == IF a = 0 THEN {50, 40000} ELSE {2000, 4095}

\* The raw values fed to the statistics harness: the two ends of each
\* channel's range, which give the extreme voltages.
HarnessRaw(a) == IF a = 0 THEN {0, 65535} ELSE {0, 4095}

\* The raw values VerifyADCReadings is applied to on its own: both sides
\* of every threshold and the ends of each channel's range.
VerifyRaw(a) ==
    IF a = 0 THEN {0, 50, 100, 101, 32768, 65434, 65435, 65436, 65535}
             ELSE {0, 9, 10, 11, 2000, 4084, 4085, 4086, 4095}

(* ------------------------------- state -------------------------------- *)

VARIABLES
    pc,            \* position of main() (or "harness" / "verify" drivers)
    cpc,           \* position inside AdcConversion: index of the statement
    adcRawData,    \* uint16_t adcRawData[NUM_ADC_CHANNELS]
    adcVoltages,   \* float adcVoltages[NUM_ADC_CHANNELS]
    testIteration, \* uint32_t testIteration
    minVoltages,   \* float minVoltages[NUM_ADC_CHANNELS]
    maxVoltages,   \* float maxVoltages[NUM_ADC_CHANNELS]
    avgVoltages,   \* float avgVoltages[NUM_ADC_CHANNELS]
    sumVoltages,   \* float sumVoltages[NUM_ADC_CHANNELS]
    socBusy,       \* hardware: a forced SOC is converting on ADC a
    adcIntFlag,    \* hardware: ADCINT1 flag of ADC a
    adcResultReg,  \* hardware: result register of SOC0 of ADC a
    uart,          \* the last record sent over the serial link
    verdictLog,    \* the self-check verdicts sent so far, in order
    window,        \* history: bag of the voltages updated into each window
    statsReset,    \* history: InitStatistics has been called
    readingsShown, \* history: number of DisplayReadings calls
    statsShown,    \* history: number of DisplayStatistics calls
    batchStart,    \* history: readingsShown at the last InitStatistics
    adcEvents,     \* history: each ADC's events since its last trigger
    triggers       \* history: number of triggers issued to each ADC

vars == <<pc, cpc, adcRawData, adcVoltages, testIteration, minVoltages,
          maxVoltages, avgVoltages, sumVoltages, socBusy, adcIntFlag,
          adcResultReg, uart, verdictLog, window, statsReset,
          readingsShown, statsShown, batchStart, adcEvents, triggers>>

progVars == <<adcRawData, adcVoltages, testIteration>>

statVars == <<minVoltages, maxVoltages, avgVoltages, sumVoltages>>

hwVars == <<socBusy, adcIntFlag, adcResultReg>>

histVars == <<window, statsReset, readingsShown, statsShown, batchStart>>

protoVars == <<adcEvents, triggers>>

Zero == [i \in Channels |-> 0]

NoMessage == [kind |-> "none"]

(* ------------------------- adc_config.c ------------------------------- *)

\* Mutant: the offset is subtracted in unsigned 16-bit arithmetic, so the
\* counts below mid-scale wrap around.
AdcResultUnsigned(read) ==
    [i \in Channels |->
        IF i = 0
        THEN LET signedValue == (read[0] - 32768) % 2^16
             IN  Scale(signedValue, DIFFERENTIAL)
        ELSE Scale(read[1], SINGLE_ENDED)]

\* AdcResult: the voltages computed from the raw readings `read`.
AdcResult(read) ==
    [i \in Channels |->
        IF i = 0
        THEN LET signedValue == read[0] - 32768
             IN  Scale(signedValue, DIFFERENTIAL)
        ELSE Scale(read[1], SINGLE_ENDED)]

\* Mutant: the result of ADC A is read before its flag is polled.
AdcConversionStepsReadFirst ==
    << <<"force", 0>>, <<"read", 0>>, <<"wait", 0>>, <<"clear", 0>>,
       <<"force", 1>>, <<"wait", 1>>, <<"clear", 1>>, <<"read", 1>> >>

\* Mutant: both conversions are triggered before either is waited for.
AdcConversionStepsPipelined ==
    << <<"force", 0>>, <<"force", 1>>, <<"wait", 0>>, <<"clear", 0>>,
       <<"read", 0>>, <<"wait", 1>>, <<"clear", 1>>, <<"read", 1>> >>

\* The statements of AdcConversion in program order: <<operation, adc>>.
AdcConversionSteps ==
    << <<"force", 0>>, <<"wait", 0>>, <<"clear", 0>>, <<"read", 0>>,
       <<"force", 1>>, <<"wait", 1>>, <<"clear", 1>>, <<"read", 1>> >>

\* The two call sites of AdcConversion in main and where each returns to.
ConvSites == {"st_conv", "loop_conv"}

ReturnSite(site) == IF site = "st_conv" THEN "st_result" ELSE "loop_result"

AtStep(op, a) ==
    /\ pc \in ConvSites
    /\ cpc \in 1 .. Len(AdcConversionSteps)
    /\ AdcConversionSteps[cpc] = <<op, a>>

\* Control moves to the next statement of AdcConversion, or returns.
Advance ==
    IF cpc >= Len(AdcConversionSteps)
    THEN cpc' = 1 /\ pc' = ReturnSite(pc)
    ELSE cpc' = cpc + 1 /\ pc' = pc

\* Mutant: the trigger is written for a start-of-conversion the converter
\* is not set up for, so that no conversion starts.
ForceSOCNoStart(a) ==
    /\ AtStep("force", a)
    /\ adcEvents' = [adcEvents EXCEPT ![a] = <<"force">>]
    /\ triggers' = [triggers EXCEPT ![a] = @ + 1]
    /\ Advance
    /\ UNCHANGED <<hwVars, progVars, statVars, uart, verdictLog, histVars>>

\* ADC_forceSOC(base, SOC0): the software trigger starts a conversion.
ForceSOC(a) ==
    /\ AtStep("force", a)
    /\ socBusy' = [socBusy EXCEPT ![a] = TRUE]
    /\ adcEvents' = [adcEvents EXCEPT ![a] = <<"force">>]
    /\ triggers' = [triggers EXCEPT ![a] = @ + 1]
    /\ Advance
    /\ UNCHANGED <<adcIntFlag, adcResultReg, progVars, statVars, uart,
                   verdictLog, histVars>>

\* Mutant: the polling loop gives up, so that control passes on whether or
\* not the flag has been set.
WaitInterruptTimeout(a) ==
    /\ AtStep("wait", a)
    /\ adcEvents' = [adcEvents EXCEPT ![a] = Append(@, "wait")]
    /\ UNCHANGED triggers
    /\ Advance
    /\ UNCHANGED <<hwVars, progVars, statVars, uart, verdictLog, histVars>>

\* while (ADC_getInterruptStatus(base, ADC_INT_NUMBER1) == false) {}: the
\* loop is left when the flag is read set; reading it clear changes nothing.
WaitInterrupt(a) ==
    /\ AtStep("wait", a)
    /\ adcIntFlag[a] = TRUE
    /\ adcEvents' = [adcEvents EXCEPT ![a] = Append(@, "wait")]
    /\ UNCHANGED triggers
    /\ Advance
    /\ UNCHANGED <<hwVars, progVars, statVars, uart, verdictLog, histVars>>

\* ADC_clearInterruptStatus(base, ADC_INT_NUMBER1).
ClearInterrupt(a) ==
    /\ AtStep("clear", a)
    /\ adcIntFlag' = [adcIntFlag EXCEPT ![a] = FALSE]
    /\ adcEvents' = [adcEvents EXCEPT ![a] = Append(@, "clear")]
    /\ UNCHANGED triggers
    /\ Advance
    /\ UNCHANGED <<socBusy, adcResultReg, progVars, statVars, uart,
                   verdictLog, histVars>>

\* read[a] = ADC_readResult(resultBase, SOC0).
ReadResult(a) ==
    /\ AtStep("read", a)
    /\ adcRawData' = [adcRawData EXCEPT ![a] = adcResultReg[a]]
    /\ adcEvents' = [adcEvents EXCEPT ![a] = Append(@, "read")]
    /\ UNCHANGED triggers
    /\ Advance
    /\ UNCHANGED <<hwVars, adcVoltages, testIteration, statVars, uart,
                   verdictLog, histVars>>

\* The converter: a forced conversion ends, latches its result and sets
\* ADCINT1 (interrupt source SOC0, end-of-conversion pulse).
EndOfConversion(a) ==
    /\ socBusy[a] = TRUE
    /\ \E raw \in RawValues(a) :
          adcResultReg' = [adcResultReg EXCEPT ![a] = raw]
    /\ adcIntFlag' = [adcIntFlag EXCEPT ![a] = TRUE]
    /\ socBusy' = [socBusy EXCEPT ![a] = FALSE]
    /\ UNCHANGED <<pc, cpc, progVars, statVars, uart, verdictLog, histVars,
                   protoVars>>

\* Mutant: the initialisation leaves the flags as they were at reset.
BoardInitNoClear ==
    /\ pc = "board_init"
    /\ pc' = "st_conv"
    /\ UNCHANGED <<cpc, hwVars, progVars, statVars, uart, verdictLog,
                   histVars, protoVars>>

\* myADCA_init / myADCB_init: ADC_clearInterruptStatus on both converters.
BoardInit ==
    /\ pc = "board_init"
    /\ adcIntFlag' = [a \in ADCs |-> FALSE]
    /\ pc' = "st_conv"
    /\ UNCHANGED <<cpc, socBusy, adcResultReg, progVars, statVars, uart,
                   verdictLog, histVars, protoVars>>

(* ---------------------------- lab_main.c ------------------------------ *)

\* Mutant: the minimum starts at 0.0f instead of above every voltage.
MinSentinelZero == 0 * VoltUnit

\* The values InitStatistics stores in minVoltages and maxVoltages.
MinSentinel == 10 * VoltUnit

MaxSentinel == (-10) * VoltUnit

\* InitStatistics.
InitStatistics ==
    /\ minVoltages' = [i \in Channels |-> MinSentinel]
    /\ maxVoltages' = [i \in Channels |-> MaxSentinel]
    /\ sumVoltages' = [i \in Channels |-> 0]
    /\ avgVoltages' = [i \in Channels |-> 0]
    /\ window' = [i \in Channels |-> EmptyBag]
    /\ statsReset' = TRUE
    /\ batchStart' = readingsShown

\* UpdateStatistics.
UpdateStatistics ==
    /\ minVoltages' = [i \in Channels |->
                          IF adcVoltages[i] < minVoltages[i]
                          THEN adcVoltages[i] ELSE minVoltages[i]]
    /\ maxVoltages' = [i \in Channels |->
                          IF adcVoltages[i] > maxVoltages[i]
                          THEN adcVoltages[i] ELSE maxVoltages[i]]
    /\ sumVoltages' = [i \in Channels |-> sumVoltages[i] + adcVoltages[i]]
    /\ window' = [i \in Channels |->
                     window[i] (+) SetToBag({adcVoltages[i]})]
    /\ UNCHANGED <<avgVoltages, statsReset, batchStart>>

\* The sample count DisplayStatistics derives from the round counter.
SampleCount(iteration) ==
    IF iteration % TEST_ITERATIONS = 0
    THEN TEST_ITERATIONS
    ELSE iteration % TEST_ITERATIONS

\* (maxVoltages[i] - minVoltages[i]) * 1000.0f, in millivolt units.
PeakToPeak(max, min) == MulDiv(max - min, 1000, VoltUnit \div MilliUnit)

\* DisplayStatistics: the averages are stored and the table is sent.
DisplayStatistics ==
    LET sampleCount == SampleCount(testIteration)
        avg == [i \in Channels |-> RoundDiv(sumVoltages[i], sampleCount)]
    IN  /\ avgVoltages' = avg
        /\ uart' = [kind |-> "stats",
                    sampleCount |-> sampleCount,
                    min |-> minVoltages,
                    max |-> maxVoltages,
                    avg |-> avg,
                    p2p |-> [i \in Channels |->
                                PeakToPeak(maxVoltages[i], minVoltages[i])]]
        /\ statsShown' = statsShown + 1
        /\ UNCHANGED <<minVoltages, maxVoltages, sumVoltages, window,
                       statsReset, readingsShown, batchStart>>

\* DisplayReadings: the reading number, the raw values and the voltages.
DisplayReadings ==
    /\ uart' = [kind |-> "reading", number |-> testIteration,
                raw |-> adcRawData, voltage |-> adcVoltages]
    /\ readingsShown' = readingsShown + 1

\* The test VerifyADCReadings applies to channel i.
ChannelValid(i, raw) ==
    IF i = 0
    THEN raw[i] > 100 /\ raw[i] < 65435
    ELSE raw[i] > 10 /\ raw[i] < 4086

\* validCount after the loop of VerifyADCReadings has visited channels
\* i .. NUM_ADC_CHANNELS - 1, starting from the count n.
RECURSIVE ValidCount(_, _, _)
ValidCount(i, n, raw) ==
    IF i >= NUM_ADC_CHANNELS
    THEN n
    ELSE ValidCount(i + 1, IF ChannelValid(i, raw) THEN n + 1 ELSE n, raw)

\* Mutant: every channel must be valid (all-or-nothing).
VerifyAllChannels(raw) == ValidCount(0, 0, raw) >= NUM_ADC_CHANNELS

\* VerifyADCReadings: its return value.
VerifyADCReadings(raw) == ValidCount(0, 0, raw) > 0

\* The condition under which the loop displays and resets the statistics.
StatsDue(iteration) ==
    (iteration > 0) /\ (iteration % TEST_ITERATIONS = 0)

(* ------------------------------ main() -------------------------------- *)

\* Mutant: the self-check round is a copy of the loop body and calls
\* UpdateStatistics as well.
SelfCheckResultUpdates ==
    /\ pc = "st_result"
    /\ adcVoltages' = AdcResult(adcRawData)
    /\ UpdateStatistics
    /\ pc' = "st_verify"
    /\ UNCHANGED <<cpc, adcRawData, testIteration, hwVars, uart, verdictLog,
                   readingsShown, statsShown, protoVars>>

\* Lines 126-128: AdcResult after the self-check conversion.
SelfCheckResult ==
    /\ pc = "st_result"
    /\ adcVoltages' = AdcResult(adcRawData)
    /\ pc' = "st_verify"
    /\ UNCHANGED <<cpc, adcRawData, testIteration, statVars, hwVars, uart,
                   verdictLog, histVars, protoVars>>

\* Mutant: a failed self-check stops the program after the warning.
SelfCheckVerifyFatal ==
    /\ pc = "st_verify"
    /\ LET ok == VerifyADCReadings(adcRawData)
           text == IF ok THEN "PASSED" ELSE "WARNING"
       IN  /\ uart' = [kind |-> "verdict", text |-> text]
           /\ verdictLog' = Append(verdictLog, text)
           /\ pc' = IF ok THEN "st_init" ELSE "halt"
    /\ UNCHANGED <<cpc, progVars, statVars, hwVars, histVars, protoVars>>

\* Lines 130-142: the verdict of the self-check is sent.
SelfCheckVerify ==
    /\ pc = "st_verify"
    /\ LET text == IF VerifyADCReadings(adcRawData)
                   THEN "PASSED" ELSE "WARNING"
       IN  /\ uart' = [kind |-> "verdict", text |-> text]
           /\ verdictLog' = Append(verdictLog, text)
    /\ pc' = "st_init"
    /\ UNCHANGED <<cpc, progVars, statVars, hwVars, histVars, protoVars>>

\* Lines 147-154: InitStatistics and the start messages.
StartMonitoring ==
    /\ pc = "st_init"
    /\ InitStatistics
    /\ uart' = [kind |-> "start"]
    /\ pc' = "loop_conv"
    /\ UNCHANGED <<cpc, progVars, hwVars, verdictLog, readingsShown,
                   statsShown, protoVars>>

\* Line 165.
LoopResult ==
    /\ pc = "loop_result"
    /\ adcVoltages' = AdcResult(adcRawData)
    /\ pc' = "loop_update"
    /\ UNCHANGED <<cpc, adcRawData, testIteration, statVars, hwVars, uart,
                   verdictLog, histVars, protoVars>>

\* Mutant: the loop body goes on to the display without the call of
\* UpdateStatistics.
LoopUpdateMissing ==
    /\ pc = "loop_update"
    /\ pc' = "loop_display"
    /\ UNCHANGED <<cpc, progVars, statVars, hwVars, uart, verdictLog,
                   histVars, protoVars>>

\* Line 168.
LoopUpdate ==
    /\ pc = "loop_update"
    /\ UpdateStatistics
    /\ pc' = "loop_display"
    /\ UNCHANGED <<cpc, progVars, hwVars, uart, verdictLog, readingsShown,
                   statsShown, protoVars>>

\* Lines 171-174: DisplayReadings (and the LED toggle).
LoopDisplay ==
    /\ pc = "loop_display"
    /\ DisplayReadings
    /\ pc' = "loop_check"
    /\ UNCHANGED <<cpc, progVars, statVars, hwVars, verdictLog, window,
                   statsReset, statsShown, batchStart, protoVars>>

\* Lines 177-179: the statistics are due and are displayed.
LoopStatistics ==
    /\ pc = "loop_check"
    /\ StatsDue(testIteration)
    /\ DisplayStatistics
    /\ pc' = "loop_reset"
    /\ UNCHANGED <<cpc, progVars, hwVars, verdictLog, protoVars>>

\* Mutant: InitStatistics stands outside the if, so that it also runs in
\* the rounds in which no statistics are displayed.
LoopNoStatisticsResets ==
    /\ pc = "loop_check"
    /\ ~StatsDue(testIteration)
    /\ pc' = "loop_reset"
    /\ UNCHANGED <<cpc, progVars, statVars, hwVars, uart, verdictLog,
                   histVars, protoVars>>

\* Line 177: the statistics are not due.
LoopNoStatistics ==
    /\ pc = "loop_check"
    /\ ~StatsDue(testIteration)
    /\ pc' = "loop_incr"
    /\ UNCHANGED <<cpc, progVars, statVars, hwVars, uart, verdictLog,
                   histVars, protoVars>>

\* Line 180: InitStatistics after the display.
LoopReset ==
    /\ pc = "loop_reset"
    /\ InitStatistics
    /\ pc' = "loop_incr"
    /\ UNCHANGED <<cpc, progVars, hwVars, uart, verdictLog, readingsShown,
                   statsShown, protoVars>>

\* Lines 184-187: testIteration++ and the pacing delay.  The run is
\* followed while testIteration is below MaxIter.
LoopIncrement ==
    /\ pc = "loop_incr"
    /\ testIteration < MaxIter
    /\ testIteration' = testIteration + 1
    /\ pc' = "loop_conv"
    /\ UNCHANGED <<cpc, adcRawData, adcVoltages, statVars, hwVars, uart,
                   verdictLog, histVars, protoVars>>

\* The state after the startup code, before Board_init: the globals are
\* zero, the interrupt flags are whatever the converters hold.
Init ==
    /\ pc = "board_init"
    /\ cpc = 1
    /\ adcRawData = Zero
    /\ adcVoltages = Zero
    /\ testIteration = 0
    /\ minVoltages = Zero
    /\ maxVoltages = Zero
    /\ avgVoltages = Zero
    /\ sumVoltages = Zero
    /\ socBusy = [a \in ADCs |-> FALSE]
    /\ adcIntFlag \in [ADCs -> BOOLEAN]
    /\ adcResultReg = Zero
    /\ uart = NoMessage
    /\ verdictLog = <<>>
    /\ window = [i \in Channels |-> EmptyBag]
    /\ statsReset = FALSE
    /\ readingsShown = 0
    /\ statsShown = 0
    /\ batchStart = 0
    /\ adcEvents = [a \in ADCs |-> <<>>]
    /\ triggers = [a \in ADCs |-> 0]

\* The steps of the program (the CPU).
Program ==
    \/ BoardInit
    \/ \E a \in ADCs : ForceSOC(a)
    \/ \E a \in ADCs : WaitInterrupt(a)
    \/ \E a \in ADCs : ClearInterrupt(a)
    \/ \E a \in ADCs : ReadResult(a)
    \/ SelfCheckResult
    \/ SelfCheckVerify
    \/ StartMonitoring
    \/ LoopResult
    \/ LoopUpdate
    \/ LoopDisplay
    \/ LoopStatistics
    \/ LoopNoStatistics
    \/ LoopReset
    \/ LoopIncrement

\* The steps of the converters.
Hardware == \E a \in ADCs : EndOfConversion(a)

Next == Program \/ Hardware

Spec == Init /\ [][Next]_vars

\* Every step of the program is taken eventually: the CPU does not stop.
\* Nothing is assumed of the converters.
FairSpec == Spec /\ WF_vars(Program)

\* The program runs and every conversion that has been triggered ends.
LiveSpec ==
    Spec /\ WF_vars(Program) /\ \A a \in ADCs : WF_vars(EndOfConversion(a))

(* ---------------- VerifyADCReadings on its own ------------------------ *)

\* main() at line 130, after a self-check round that read any pair of the
\* raw values VerifyRaw.
InitVerify ==
    /\ pc = "st_verify"
    /\ cpc = 1
    /\ adcRawData \in [Channels -> VerifyRaw(0) \cup VerifyRaw(1)]
    /\ \A i \in Channels : adcRawData[i] \in VerifyRaw(i)
    /\ adcVoltages = AdcResult(adcRawData)
    /\ testIteration = 0
    /\ minVoltages = Zero
    /\ maxVoltages = Zero
    /\ avgVoltages = Zero
    /\ sumVoltages = Zero
    /\ socBusy = [a \in ADCs |-> FALSE]
    /\ adcIntFlag = [a \in ADCs |-> FALSE]
    /\ adcResultReg = adcRawData
    /\ uart = NoMessage
    /\ verdictLog = <<>>
    /\ window = [i \in Channels |-> EmptyBag]
    /\ statsReset = FALSE
    /\ readingsShown = 0
    /\ statsShown = 0
    /\ batchStart = 0
    /\ adcEvents = [a \in ADCs |-> <<"force", "wait", "clear", "read">>]
    /\ triggers = [a \in ADCs |-> 1]

NextVerify == SelfCheckVerify

SpecVerify == InitVerify /\ [][NextVerify]_vars

(* ------------- the statistics functions called directly --------------- *)

\* A driver that calls InitStatistics, UpdateStatistics and
\* DisplayStatistics in any order, with readings it supplies itself; pc
\* names the call that returned last.
HarnessSites == {"harness", "h_acquire", "h_init", "h_update", "h_display"}

InitStats ==
    /\ pc = "harness"
    /\ cpc = 1
    /\ adcRawData = Zero
    /\ adcVoltages = Zero
    /\ testIteration \in 0 .. MaxHarnessIter
    /\ minVoltages = Zero
    /\ maxVoltages = Zero
    /\ avgVoltages = Zero
    /\ sumVoltages = Zero
    /\ socBusy = [a \in ADCs |-> FALSE]
    /\ adcIntFlag = [a \in ADCs |-> FALSE]
    /\ adcResultReg = Zero
    /\ uart = NoMessage
    /\ verdictLog = <<>>
    /\ window = [i \in Channels |-> EmptyBag]
    /\ statsReset = FALSE
    /\ readingsShown = 0
    /\ statsShown = 0
    /\ batchStart = 0
    /\ adcEvents = [a \in ADCs |-> <<>>]
    /\ triggers = [a \in ADCs |-> 0]

\* The readings of one round are supplied and AdcResult converts them.
HarnessAcquire ==
    /\ pc \in HarnessSites
    /\ \E r0 \in HarnessRaw(0), r1 \in HarnessRaw(1) :
          /\ adcRawData' = [i \in Channels |-> IF i = 0 THEN r0 ELSE r1]
          /\ adcVoltages' = AdcResult(adcRawData')
    /\ pc' = "h_acquire"
    /\ UNCHANGED <<cpc, testIteration, statVars, hwVars, uart, verdictLog,
                   histVars, protoVars>>

HarnessInitStatistics ==
    /\ pc \in HarnessSites
    /\ InitStatistics
    /\ pc' = "h_init"
    /\ UNCHANGED <<cpc, progVars, hwVars, uart, verdictLog, readingsShown,
                   statsShown, protoVars>>

HarnessUpdateStatistics ==
    /\ pc \in HarnessSites
    /\ \A i \in Channels : BagCardinality(window[i]) < MaxWindow
    /\ UpdateStatistics
    /\ pc' = "h_update"
    /\ UNCHANGED <<cpc, progVars, hwVars, uart, verdictLog, readingsShown,
                   statsShown, protoVars>>

HarnessDisplayStatistics ==
    /\ pc \in HarnessSites
    /\ statsShown < MaxSnapshots
    /\ DisplayStatistics
    /\ pc' = "h_display"
    /\ UNCHANGED <<cpc, progVars, hwVars, verdictLog, protoVars>>

NextStats ==
    \/ HarnessAcquire
    \/ HarnessInitStatistics
    \/ HarnessUpdateStatistics
    \/ HarnessDisplayStatistics

SpecStats == InitStats /\ [][NextStats]_vars

(* ------------------------------ claims -------------------------------- *)

\* The sum of the elements of a bag of numbers, with their multiplicity.
RECURSIVE SetSum(_, _)
SetSum(S, b) ==
    IF S = {}
    THEN 0
    ELSE LET x == CHOOSE y \in S : TRUE
         IN  x * CopiesIn(x, b) + SetSum(S \ {x}, b)

BagSum(b) == SetSum(BagToSet(b), b)

SetMin(S) == CHOOSE x \in S : \A y \in S : x <= y

SetMax(S) == CHOOSE x \in S : \A y \in S : x >= y

\* main() has just returned from DisplayStatistics (line 179).
ReportIssued == pc = "loop_reset" /\ uart.kind = "stats"

\* C1: at every statistics report of the main loop the reported sample
\* count is the number of UpdateStatistics calls since the last
\* InitStatistics, the first batch included.
C1_SampleCountIsUpdateCount ==
    ReportIssued =>
        \A i \in Channels : uart.sampleCount = BagCardinality(window[i])

\* C2: at every statistics report the average of each channel is the sum
\* of the voltages accumulated into its window since the last reset
\* divided by the number of updates accumulated.
C2_AverageIsMeanOfWindow ==
    ReportIssued =>
        \A i \in Channels :
            /\ uart.avg[i] =
                  RoundDiv(BagSum(window[i]), BagCardinality(window[i]))
            /\ avgVoltages[i] = uart.avg[i]

\* C3: the statistics are reported exactly after every 10 rounds: at the
\* k-th report 10 * k rounds have been acquired and displayed (10 at the
\* first report, 10 more at each later one), and the report is followed
\* by the reset.
C3_ReportAfterEveryTenRounds ==
    ReportIssued => readingsShown = TEST_ITERATIONS * statsShown

\* C4: after one or more UpdateStatistics calls since the last
\* InitStatistics, minVoltages[i] is the smallest and maxVoltages[i] the
\* largest voltage updated into the window of channel i, so every such
\* voltage lies between them and neither sentinel is left.
C4_MinMaxOfWindow ==
    \A i \in Channels :
        (statsReset /\ window[i] # EmptyBag) =>
            /\ minVoltages[i] = SetMin(BagToSet(window[i]))
            /\ maxVoltages[i] = SetMax(BagToSet(window[i]))
            /\ \A x \in BagToSet(window[i]) :
                  minVoltages[i] <= x /\ x <= maxVoltages[i]
            /\ minVoltages[i] # 10 * VoltUnit
            /\ maxVoltages[i] # (-10) * VoltUnit

\* Both ends of both ranges have been updated into one window.
C4_Witness ==
    /\ statsReset
    /\ pc = "h_update"
    /\ \A i \in Channels : BagCardinality(window[i]) = 2
    /\ minVoltages[0] = AdcResult([i \in Channels |-> 0])[0]
    /\ maxVoltages[0] = AdcResult([i \in Channels |-> 65535])[0]
    /\ minVoltages[1] = 0
    /\ maxVoltages[1] = AdcResult([i \in Channels |-> 4095])[1]

Has(e, op) == \E k \in 1 .. Len(e) : e[k] = op

Before(e, op1, op2) ==
    \A k \in 1 .. Len(e) : e[k] = op2 => \E j \in 1 .. (k - 1) : e[j] = op1

\* The acquisition whose events are e has been triggered, observed,
\* cleared and read.
Complete(e) == Has(e, "wait") /\ Has(e, "clear") /\ Has(e, "read")

\* The acquisition whose events are e is triggered and not yet read.
Outstanding(e) == e # <<>> /\ ~Has(e, "read")

\* C5: for each ADC the events of an acquisition come in the order
\* trigger, flag observed set, result read; the flag is cleared after it
\* was observed, and a trigger is issued to an ADC only when its previous
\* acquisition, if any, has had its flag observed and then cleared.
C5_ProtocolOrder ==
    /\ [](\A a \in ADCs :
            /\ adcEvents[a] # <<>> => adcEvents[a][1] = "force"
            /\ Before(adcEvents[a], "wait", "read")
            /\ Before(adcEvents[a], "wait", "clear"))
    /\ [][\A a \in ADCs :
            triggers'[a] # triggers[a] =>
                \/ adcEvents[a] = <<>>
                \/ /\ Has(adcEvents[a], "clear")
                   /\ Before(adcEvents[a], "wait", "clear")]_vars

\* ADC A has been triggered a second time after a full first acquisition
\* and that second acquisition has been read.
C5_Witness ==
    /\ triggers[0] = 2
    /\ adcEvents[0] = <<"force", "wait", "clear", "read">>

\* C6: the two channels are acquired one after the other: while channel
\* 1 is outstanding channel 0 of the same round is complete, while
\* channel 0 is outstanding channel 1 has not been triggered in this
\* round, and the two converters are never busy together.
C6_StrictlySequential ==
    /\ ~(socBusy[0] /\ socBusy[1])
    /\ ~(Outstanding(adcEvents[0]) /\ Outstanding(adcEvents[1]))
    /\ Outstanding(adcEvents[1]) =>
          Complete(adcEvents[0]) /\ triggers[0] = triggers[1]
    /\ Outstanding(adcEvents[0]) =>
          /\ adcEvents[1] = <<>> \/ Complete(adcEvents[1])
          /\ triggers[1] = triggers[0] - 1

\* Channel 1 is converting in the second round, channel 0 being done.
C6_Witness ==
    /\ socBusy[1]
    /\ triggers[1] = 2
    /\ Complete(adcEvents[0])

\* C7: the self-check passes if and only if at least one channel's raw
\* sample passes the channel test, and warns only when none does.
C7_PassIffSomeChannelValid ==
    pc = "st_init" =>
        /\ verdictLog = <<"PASSED">> <=>
              \E i \in Channels : ChannelValid(i, adcRawData)
        /\ verdictLog = <<"WARNING">> <=>
              \A i \in Channels : ~ChannelValid(i, adcRawData)

\* Channel 0 at 50 is implausible, channel 1 at 2000 plausible: PASSED.
C7_Witness ==
    /\ pc = "st_init"
    /\ adcRawData[0] = 50
    /\ adcRawData[1] = 2000
    /\ ~ChannelValid(0, adcRawData)
    /\ verdictLog = <<"PASSED">>

\* The resolution of each channel (board.c, ADC_setMode) and the margin
\* the specification gives it.
ResolutionBits(i) == IF i = 0 THEN 16 ELSE 12

Margin(i) == IF i = 0 THEN 100 ELSE 10

\* A sample is implausible exactly when it is within the margin of either
\* end of the raw range [0, 2^bits - 1].
Plausible(i, raw) ==
    /\ raw > Margin(i)
    /\ raw < (2^ResolutionBits(i) - 1) - Margin(i)

\* C8: the self-check judges every channel with the same margin at both
\* ends of its range (100 counts for channel 0, 10 for channel 1), so it
\* passes exactly when some channel is farther than its margin from both
\* 0 and 2^bits - 1.
C8_SameMarginAtBothEnds ==
    pc = "st_init" =>
        (verdictLog = <<"PASSED">> <=>
            \E i \in Channels : Plausible(i, adcRawData[i]))

\* The program is past the verdict of the self-check.
PastVerdict == pc \notin {"board_init", "st_conv", "st_result", "st_verify"}

\* C9: after the self-check round exactly one verdict, PASSED or WARNING,
\* is sent, and whatever the samples were the program goes on to trigger
\* the first conversion of the monitoring loop.
C9_SelfCheckNeverFatal ==
    /\ [](PastVerdict =>
            /\ Len(verdictLog) = 1
            /\ verdictLog[1] \in {"PASSED", "WARNING"})
    /\ [](~PastVerdict => verdictLog = <<>>)
    /\ (pc = "st_verify") ~> (pc = "loop_conv" /\ triggers[0] = 2)

\* The first monitoring round has started after a WARNING.
C9_Witness ==
    /\ pc = "loop_conv"
    /\ triggers[0] = 2
    /\ verdictLog = <<"WARNING">>

\* C10: a snapshot of a window that was reset and never updated reports
\* that it holds no data: its sample count is 0, not a count with an
\* average of 0 and the sentinels as minimum and maximum.
C10_EmptySnapshotSaysNoData ==
    (/\ pc = "h_display"
     /\ statsReset
     /\ \A i \in Channels : window[i] = EmptyBag) =>
        uart.sampleCount = 0

(* --------------------- AdcResult on its own --------------------------- *)

\* The full range of the two result registers: 16 bits for ADC A, 12 bits
\* for ADC B (ADC_setMode in myADCA_init and myADCB_init).
RawRange(a) == IF a = 0 THEN 0 .. (2^16 - 1) ELSE 0 .. (2^12 - 1)

\* The ends and the middle of the range of a result register.
RawEnds(a) == IF a = 0 THEN {0, 2^15, 2^16 - 1} ELSE {0, 2^12 - 1}

\* main() at line 128, after a self-check conversion in which one register
\* took any value of its range and the other an end or the middle of its
\* range.
InitCalib ==
    /\ pc = "st_result"
    /\ cpc = 1
    /\ \/ \E r \in RawRange(0), s \in RawEnds(1) :
             adcRawData = [i \in Channels |-> IF i = 0 THEN r ELSE s]
       \/ \E r \in RawEnds(0), s \in RawRange(1) :
             adcRawData = [i \in Channels |-> IF i = 0 THEN r ELSE s]
    /\ adcVoltages = Zero
    /\ testIteration = 0
    /\ minVoltages = Zero
    /\ maxVoltages = Zero
    /\ avgVoltages = Zero
    /\ sumVoltages = Zero
    /\ socBusy = [a \in ADCs |-> FALSE]
    /\ adcIntFlag = [a \in ADCs |-> FALSE]
    /\ adcResultReg = adcRawData
    /\ uart = NoMessage
    /\ verdictLog = <<>>
    /\ window = [i \in Channels |-> EmptyBag]
    /\ statsReset = FALSE
    /\ readingsShown = 0
    /\ statsShown = 0
    /\ batchStart = 0
    /\ adcEvents = [a \in ADCs |-> <<"force", "wait", "clear", "read">>]
    /\ triggers = [a \in ADCs |-> 1]

NextCalib == SelfCheckResult

SpecCalib == InitCalib /\ [][NextCalib]_vars

(* ------------------------------ C11 ----------------------------------- *)

\* The reference voltage 3.3f = 13841203 * 2^-22 V, in volt units.
FullScale == 13841203 * 2^3

\* v is count * scale to within half a unit of the fixed point. The first
\* conjunct bounds the part of v that the fractional part of the scale
\* accounts for, which also keeps the products of the second small.
IsScaled(v, count, scale) ==
    LET hi == scale[1] \div scale[2]
        lo == scale[1] % scale[2]
        d == v - count * hi
        absCount == IF count < 0 THEN -count ELSE count
    IN  /\ -(absCount + 1) <= d
        /\ d <= absCount + 1
        /\ -scale[2] <= 2 * (d * scale[2] - count * lo)
        /\ 2 * (d * scale[2] - count * lo) <= scale[2]

\* C11: once AdcResult has run, the voltage of channel 0 is (raw - 32768)
\* counts times the differential scale, negative exactly below mid-scale
\* (the signed count does not wrap): raw 32768 gives 0, raw 0 gives -V/2
\* and raw 65535 gives V/2 less one count; the voltage of channel 1 is raw
\* counts times the single-ended scale: raw 0 gives 0 and raw 4095 gives V
\* less one count.
C11_CalibrationModel ==
    pc = "st_verify" =>
        LET raw == adcRawData
            v == adcVoltages
        IN  /\ (v[0] < 0) <=> (raw[0] < 32768)
            /\ -(FullScale \div 2) <= v[0]
            /\ v[0] < FullScale \div 2
            /\ IsScaled(v[0], raw[0] - 32768, DIFFERENTIAL)
            /\ raw[0] = 32768 => v[0] = 0
            /\ raw[0] = 0 => v[0] = -(FullScale \div 2)
            /\ raw[0] = 65535 =>
                  v[0] = FullScale \div 2 - Scale(1, DIFFERENTIAL)
            /\ 0 <= v[1]
            /\ v[1] < FullScale
            /\ IsScaled(v[1], raw[1], SINGLE_ENDED)
            /\ raw[1] = 0 => v[1] = 0
            /\ raw[1] = 4095 => v[1] = FullScale - Scale(1, SINGLE_ENDED)

\* Both registers at the bottom of their range have been converted.
C11_Witness ==
    /\ pc = "st_verify"
    /\ adcRawData = [i \in Channels |-> 0]
    /\ adcVoltages[0] = -(FullScale \div 2)
    /\ adcVoltages[1] = 0

(* ------------------------------ C12 ----------------------------------- *)

\* AdcConversion polls the flag of converter a and finds it clear.
Polling(a) == AtStep("wait", a) /\ adcIntFlag[a] = FALSE

\* Everything the program itself writes: its position, its globals, what
\* it sent and the record of what it did.
programState ==
    <<pc, cpc, progVars, statVars, uart, verdictLog, histVars, protoVars>>

\* C12: AdcConversion has no timeout. While it polls a flag that is clear
\* no statement of the program can run, and every step taken leaves the
\* program where it is: no result is read, no statistics change, the round
\* counter keeps its value and nothing is sent. Only the converter setting
\* the flag ends this, so if it never does the call never returns.
C12_NoTimeout ==
    /\ [](\A a \in ADCs : Polling(a) => ~ENABLED Program)
    /\ [][(\E a \in ADCs : Polling(a)) => UNCHANGED programState]_vars
    /\ [][\A a \in ADCs :
            (Polling(a) /\ ~Polling(a)') => adcIntFlag'[a] = TRUE]_vars

\* A monitoring round polls the flag of ADC B while its conversion is
\* still running.
C12_Witness ==
    /\ pc = "loop_conv"
    /\ Polling(1)
    /\ socBusy[1] = TRUE
    /\ testIteration = 3

(* ------------------------------ C13 ----------------------------------- *)

\* C13: a trigger is issued to an ADC only while that ADC's completion
\* flag is clear; the polling loop is left only once the conversion of the
\* latest trigger has ended, never on a flag left from before; and a raw
\* value that has been read is the result of the conversion triggered for
\* that read.
C13_NoStaleFlag ==
    /\ [][\A a \in ADCs :
            triggers'[a] # triggers[a] => adcIntFlag[a] = FALSE]_vars
    /\ [][\A a \in ADCs :
            (Has(adcEvents'[a], "wait") /\ ~Has(adcEvents[a], "wait")) =>
                adcIntFlag[a] = TRUE /\ socBusy[a] = FALSE]_vars
    /\ [](\A a \in ADCs :
            Has(adcEvents[a], "read") =>
                /\ socBusy[a] = FALSE
                /\ adcRawData[a] = adcResultReg[a])

\* The first monitoring round has triggered, awaited and read both ADCs,
\* with results that differ from those of the self-check round.
C13_Witness ==
    /\ pc = "loop_result"
    /\ testIteration = 0
    /\ \A a \in ADCs :
          /\ triggers[a] = 2
          /\ Complete(adcEvents[a])
          /\ adcRawData[a] = adcResultReg[a]
          /\ adcIntFlag[a] = FALSE
    /\ AdcResult(adcRawData) # adcVoltages

(* ------------------------------ C14 ----------------------------------- *)

\* The positions of main inside the while (1) loop.
LoopSites ==
    {"loop_conv", "loop_result", "loop_update", "loop_display",
     "loop_check", "loop_reset", "loop_incr"}

\* C14: when every triggered conversion ends, the monitoring loop is
\* entered and never left, every round that starts runs to its end, the
\* round counter grows one by one through every value the model follows
\* it to (MaxIter), and the reports come one by one, as many as there are
\* multiples of TEST_ITERATIONS up to there.
C14_MonitoringProgress ==
    /\ [][(pc \in LoopSites) => (pc' \in LoopSites)]_vars
    /\ [][testIteration' = testIteration \/
          testIteration' = testIteration + 1]_vars
    /\ [][statsShown' = statsShown \/ statsShown' = statsShown + 1]_vars
    /\ (pc = "loop_conv") ~> (pc = "loop_incr")
    /\ <>(testIteration = MaxIter)
    /\ <>(statsShown = MaxIter \div TEST_ITERATIONS)

\* The loop has run as far as the model follows it, with both reports
\* issued on the way.
C14_Witness ==
    /\ pc = "loop_incr"
    /\ testIteration = MaxIter
    /\ statsShown = MaxIter \div TEST_ITERATIONS
    /\ readingsShown = MaxIter + 1

(* ------------------------------ C15 ----------------------------------- *)

\* C15: at every statistics report of the main loop each channel's window
\* holds at least one voltage added since the last InitStatistics, the
\* reported minimum is not above the reported maximum, and the reported
\* peak-to-peak value is not negative.
C15_ReportNeverEmpty ==
    ReportIssued =>
        /\ statsReset
        /\ \A i \in Channels :
              /\ BagCardinality(window[i]) >= 1
              /\ uart.min[i] <= uart.max[i]
              /\ uart.p2p[i] >= 0
              /\ uart.min[i] # MinSentinel
              /\ uart.max[i] # MaxSentinel

\* A second report, over a window in which channel 0 took both of its
\* values and channel 1 only one.
C15_Witness ==
    /\ ReportIssued
    /\ statsShown = 2
    /\ uart.min[0] < uart.max[0]
    /\ uart.p2p[0] > 0
    /\ uart.min[1] = uart.max[1]
    /\ uart.p2p[1] = 0

(* ------------------------------ C16 ----------------------------------- *)

EmptyWindows == [i \in Channels |-> EmptyBag]

\* The positions of a round after its DisplayReadings.
DisplayedSites == {"loop_check", "loop_reset", "loop_incr"}

\* C16: in the monitoring loop every round is displayed once and adds to
\* each window exactly one voltage, the one computed from the results read
\* in that round, so each window holds one voltage per round since its
\* last reset; the windows are emptied only by the InitStatistics that
\* follows a report, the report having been computed from exactly the
\* voltages emptied, and the step after a report is that reset.
C16_EveryRoundInOneBatch ==
    /\ [](pc \in LoopSites =>
            /\ readingsShown =
                  testIteration + (IF pc \in DisplayedSites THEN 1 ELSE 0)
            /\ \A i \in Channels :
                  BagCardinality(window[i]) =
                     readingsShown - batchStart
                        + (IF pc = "loop_display" THEN 1 ELSE 0))
    /\ [][(window' # window /\ window' # EmptyWindows) =>
            /\ pc = "loop_update"
            /\ adcVoltages = AdcResult(adcRawData)
            /\ \A i \in Channels :
                  /\ window'[i] = window[i] (+) SetToBag({adcVoltages[i]})
                  /\ Complete(adcEvents[i])
                  /\ adcRawData[i] = adcResultReg[i]
                  /\ triggers[i] = testIteration + 2]_vars
    /\ [][(window # EmptyWindows /\ window' = EmptyWindows) =>
            /\ ReportIssued
            /\ uart.min = minVoltages
            /\ uart.max = maxVoltages
            /\ \A i \in Channels :
                  /\ sumVoltages[i] = BagSum(window[i])
                  /\ uart.min[i] = SetMin(BagToSet(window[i]))
                  /\ uart.max[i] = SetMax(BagToSet(window[i]))]_vars
    /\ [][ReportIssued => window' = EmptyWindows]_vars

\* The second batch has been reported and reset: 21 rounds displayed, all
\* of them in one of the two batches.
C16_Witness ==
    /\ pc = "loop_incr"
    /\ statsShown = 2
    /\ window = EmptyWindows
    /\ readingsShown = 2 * TEST_ITERATIONS + 1
    /\ batchStart = readingsShown

(* ------------------------------ C17 ----------------------------------- *)

\* C17: until the InitStatistics that follows the self-check nothing has
\* been added to the statistics, which still hold their start-up zeros;
\* every voltage added to a window is added by the loop, after that
\* InitStatistics, from a conversion triggered after the self-check; so
\* the first report, whatever the verdict, covers the voltages of the
\* loop's rounds and nothing else.
C17_SelfCheckNotInStatistics ==
    /\ [](~statsReset =>
            /\ window = EmptyWindows
            /\ sumVoltages = Zero
            /\ minVoltages = Zero
            /\ maxVoltages = Zero)
    /\ [][window' # window =>
            /\ statsReset'
            /\ (window' # EmptyWindows) =>
                  /\ statsReset
                  /\ pc = "loop_update"
                  /\ \A i \in Channels : triggers[i] >= 2]_vars
    /\ []((ReportIssued /\ statsShown = 1) =>
            /\ Len(verdictLog) = 1
            /\ \A i \in Channels :
                  /\ BagCardinality(window[i]) = testIteration + 1
                  /\ sumVoltages[i] = BagSum(window[i]))

\* The self-check read the implausible pair (50, 4095) and warned; the
\* rounds of the first report all read the pair (40000, 2000), so neither
\* self-check voltage is among the reported ones.
C17_Witness ==
    LET loopPair == [i \in Channels |-> IF i = 0 THEN 40000 ELSE 2000]
    IN  /\ ReportIssued
        /\ statsShown = 1
        /\ verdictLog = <<"WARNING">>
        /\ \A i \in Channels :
              BagToSet(window[i]) = {AdcResult(loopPair)[i]}

(* -------------------- UARTSendFloat on its own ------------------------ *)

\* The characters '0' .. '9'.
DigitChars == <<"0", "1", "2", "3", "4", "5", "6", "7", "8", "9">>

\* The loop of UARTSendInt / UARTSendUInt: the decimal digits of num > 0,
\* most significant first (the buffer is filled backwards and sent in
\* reverse).
RECURSIVE DigitsOf(_)
DigitsOf(num) ==
    IF num = 0
    THEN <<>>
    ELSE Append(DigitsOf(num \div 10), DigitChars[(num % 10) + 1])

\* UARTSendUInt: the characters sent.
UARTSendUInt(num) == IF num = 0 THEN <<"0">> ELSE DigitsOf(num)

\* UARTSendInt: the characters sent.
UARTSendInt(num) ==
    LET isNeg == num < 0
        n == IF isNeg THEN -num ELSE num
    IN  IF n = 0
        THEN <<"0">>
        ELSE (IF isNeg THEN <<"-">> ELSE <<>>) \o DigitsOf(n)

\* (uint32_t)(fracPart * 1000.0f + 0.5f) for 0 <= fracPart < unit, a
\* multiple of 2^12: fracPart is split so that no product leaves the
\* integer range of the model checker.
Thousandths(fracPart, unit) ==
    LET a == fracPart \div 2^12
        b == fracPart % 2^12
    IN  (a * 1000 + (b * 1000 + unit \div 2) \div 2^12) \div (unit \div 2^12)

\* UARTSendFloat: the characters sent for value, a float in fixed point
\* with unit steps to one.
UARTSendFloat(value, unit) ==
    LET intPart == IF value < 0 THEN -((-value) \div unit)
                                ELSE value \div unit
        diff == value - intPart * unit
        fracPart == IF diff < 0 THEN -diff ELSE diff
        fracInt == Thousandths(fracPart, unit)
    IN  (IF value < 0 /\ intPart = 0 THEN <<"-">> ELSE <<>>)
        \o UARTSendInt(intPart)
        \o <<".">>
        \o (IF fracInt < 100 THEN <<"0">> ELSE <<>>)
        \o (IF fracInt < 10 THEN <<"0">> ELSE <<>>)
        \o UARTSendUInt(fracInt)

\* The fractions are taken on a grid of FloatGrid steps to one.
FloatGrid == 10000

\* The integer parts of the values sent.
FloatIntParts == {0, 1, 3, 12}

\* The values sent: both signs, each integer part, every step of the grid.
FloatInputs ==
    {s * (n * VoltUnit + Scale(t, <<VoltUnit, FloatGrid>>)) :
        s \in {-1, 1}, n \in FloatIntParts, t \in 0 .. (FloatGrid - 1)}

\* DisplayReadings at the UARTSendFloat call for channel 0 (line 403),
\* whose voltage is any of FloatInputs.
InitFloat ==
    /\ pc = "float_call"
    /\ cpc = 1
    /\ adcRawData = Zero
    /\ \E v \in FloatInputs :
          adcVoltages = [i \in Channels |-> IF i = 0 THEN v ELSE 0]
    /\ testIteration = 0
    /\ minVoltages = Zero
    /\ maxVoltages = Zero
    /\ avgVoltages = Zero
    /\ sumVoltages = Zero
    /\ socBusy = [a \in ADCs |-> FALSE]
    /\ adcIntFlag = [a \in ADCs |-> FALSE]
    /\ adcResultReg = Zero
    /\ uart = NoMessage
    /\ verdictLog = <<>>
    /\ window = [i \in Channels |-> EmptyBag]
    /\ statsReset = FALSE
    /\ readingsShown = 0
    /\ statsShown = 0
    /\ batchStart = 0
    /\ adcEvents = [a \in ADCs |-> <<>>]
    /\ triggers = [a \in ADCs |-> 0]

\* The call UARTSendFloat(adcVoltages[0]).
SendFloat ==
    /\ pc = "float_call"
    /\ uart' = [kind |-> "float",
                text |-> UARTSendFloat(adcVoltages[0], VoltUnit)]
    /\ pc' = "float_done"
    /\ UNCHANGED <<cpc, progVars, statVars, hwVars, verdictLog, histVars,
                   protoVars>>

NextFloat == SendFloat

SpecFloat == InitFloat /\ [][NextFloat]_vars

(* ------------------------------ C18 ----------------------------------- *)

\* The number a sequence of digit characters denotes.
RECURSIVE SeqToNat(_)
SeqToNat(digits) ==
    IF digits = <<>>
    THEN 0
    ELSE LET last == digits[Len(digits)]
             d == CHOOSE k \in 0 .. 9 : DigitChars[k + 1] = last
         IN  10 * SeqToNat(SubSeq(digits, 1, Len(digits) - 1)) + d

AllDigits(text) ==
    \A k \in 1 .. Len(text) : \E d \in 1 .. 10 : text[k] = DigitChars[d]

\* text is an optional '-', an integer part, '.' and exactly three
\* fractional digits, and the number it denotes is value rounded to the
\* nearest thousandth.
IsThreeDecimals(text, value, unit) ==
    LET signed == text # <<>> /\ text[1] = "-"
        body == IF signed THEN SubSeq(text, 2, Len(text)) ELSE text
        n == Len(body)
        abs == IF value < 0 THEN -value ELSE value
        nearest == (abs \div unit) * 1000 + Thousandths(abs % unit, unit)
    IN  /\ signed => value < 0
        /\ n >= 5
        /\ body[n - 3] = "."
        /\ AllDigits(SubSeq(body, 1, n - 4))
        /\ AllDigits(SubSeq(body, n - 2, n))
        /\ SeqToNat(SubSeq(body, 1, n - 4)) * 1000
              + SeqToNat(SubSeq(body, n - 2, n)) = nearest
        /\ (value < 0 /\ nearest > 0) => signed

\* C18: the text UARTSendFloat sends for a value is an optional '-', the
\* integer part, '.' and exactly three fractional digits, and denotes the
\* value rounded to the nearest thousandth, also when the fraction rounds
\* up to the next integer.
C18_ThreeDecimalPlaces ==
    pc = "float_done" =>
        IsThreeDecimals(uart.text, adcVoltages[0], VoltUnit)

=============================================================================
